---- MODULE Spec2Model ----
(***************************************************************************)
(* Model of src/ssh_utils.py: class SSHClient, a handle that owns at most  *)
(* one paramiko session and offers connect / execute_command / close /     *)
(* is_connected and the context-manager protocol.                          *)
(*                                                                         *)
(* The paramiko library and the remote host are the environment.  Every    *)
(* session object the handle creates gets an identity (its index in        *)
(* `sessions`) and carries the state of its transport:                     *)
(*   "none"     get_transport() is None (never opened, or closed cleanly)  *)
(*   "active"   get_transport().is_active() is true, session authenticated *)
(*   "unauth"   get_transport().is_active() is true, authentication failed *)
(*   "inactive" a transport exists and is not active                       *)
(* execute_command is modelled step by step (pc), because the transport    *)
(* can drop between any two of its steps.                                  *)
(***************************************************************************)
EXTENDS Integers, Sequences, FiniteSets, TLC

\* ------------------------------------------------------------- bounds ----
\* Session objects one handle creates in a run.
MaxSessions == 4
\* The interpreter's recursion limit, scaled down: frames of execute_command
\* that may be live at once.
MaxRecursion == 3

\* ---------------------------------------------------------- constants ----
DefaultPort == 22
DefaultTimeout == 30

\* self.client is None
None == 0
\* an optional string argument left at its default (None)
Unset == "None"

\* Values a caller passes for password / key_path: None, the empty string,
\* a non-empty string.
Passwords == {Unset, "", "pw"}
KeyPaths == {Unset, "/id_rsa"}
\* The calls a caller makes: one with the default timeout, one with its own.
Calls == {[command |-> "echo ok", timeout |-> DefaultTimeout],
          [command |-> "exit 7", timeout |-> 5]}

\* Error classes.  AuthenticationException is a subclass of SSHException
\* (line 3, and the order of the except clauses at lines 58-61).
ErrorKinds == {"Auth", "SSH", "Other", "Config", "Recursion", "Body"}
IsSSHException(e) == e \in {"Auth", "SSH"}

VARIABLES
    host, user, password, key_path, port,   \* configuration (lines 15-19)
    client,       \* self.client: None or the id of a session object
    sessions,     \* every session object created so far: [transport, closed]
    inWith,       \* the caller is inside the body of `with handle:`
    op,           \* the method the caller called last
    outcome,      \* "none" | "pending" | "returned" | "raised"
    error,        \* class of the exception raised, "none" otherwise
    ret,          \* the value returned by execute_command, NoValue otherwise
    pc,           \* position inside execute_command, "idle" outside it
    depth,        \* live frames of execute_command
    command, timeout,   \* arguments of the innermost frame
    call,         \* arguments of the caller's (outermost) call
    attempts,     \* exec_command attempts made by the current call
    lastExec      \* the last exec_command attempt: its arguments, the session it
                  \* ran on, what happened ("reply", "SSH", "Other") and the reply

config == <<host, user, password, key_path, port>>
handle == <<client, sessions>>
result == <<op, outcome, error, ret>>
frame  == <<pc, depth, command, timeout, call, attempts, lastExec>>
vars   == <<config, handle, inWith, result, frame>>

NoValue == <<>>
NoArgs == [command |-> "", timeout |-> 0]

\* What the remote side sends back for one command: the bytes of its standard
\* output and standard error, and its exit status: "ok\n" with status 0,
\* " e" on standard error with status 7, and a byte that is no UTF-8.
Replies == {[out |-> <<111, 107, 10>>, err |-> << >>, status |-> 0],
            [out |-> << >>, err |-> <<32, 101>>, status |-> 7],
            [out |-> <<255>>, err |-> << >>, status |-> 0]}
NoReply == [out |-> << >>, err |-> << >>, status |-> -1]
NoExec == [command |-> "", timeout |-> 0, session |-> None, event |-> "none",
           reply |-> NoReply]

\* ------------------------------------------------------ pure helpers ----
\* Python truthiness of an optional string (lines 36, 44).
Truthy(v) == v # Unset /\ v # ""

\* Lines 27, 75, 133: client is not None and its transport exists and is
\* active.
is_active(c) == c # None /\ sessions[c].transport \in {"active", "unauth"}

is_connected == is_active(client)

\* A connect() without the test of line 27.
AlreadyConnected_never == FALSE

\* Line 27: connect() returns at once when the session is active.
AlreadyConnected == is_active(client)

\* Line 75 testing only `self.client is None`: a stale session is used as is.
NeedsConnect_onlyNone == client = None

\* Line 75: execute_command() connects first when there is no active session.
NeedsConnect == client = None \/ ~is_active(client)

\* ------------------------------------------------ text of the streams ----
\* bytes.decode('utf-8') on the bytes the model uses (lines 82-83): an ASCII
\* byte is its character, any other byte here is no valid UTF-8.
Valid(b) == \A i \in 1..Len(b) : b[i] < 128

Chr(n) == CASE n = 10 -> "\n" [] n = 32 -> " " [] n = 101 -> "e"
            [] n = 107 -> "k" [] n = 111 -> "o" [] OTHER -> "?"

decode(b) == [i \in 1..Len(b) |-> Chr(b[i])]

Whitespace == {" ", "\n", "\t", "\r"}

RECURSIVE lstrip(_)
lstrip(s) == IF s # << >> /\ Head(s) \in Whitespace THEN lstrip(Tail(s)) ELSE s

RECURSIVE rstrip(_)
rstrip(s) == IF s # << >> /\ s[Len(s)] \in Whitespace
             THEN rstrip(SubSeq(s, 1, Len(s) - 1)) ELSE s

\* str.strip() (lines 82-83)
strip(s) == rstrip(lstrip(s))

\* Lines 82-90: the triple execute_command returns for a reply; both
\* branches of the exit-status test return the same triple.
Triple(r) == <<strip(decode(r.out)), strip(decode(r.err)), r.status>>

\* ------------------------------------------------------------ connect ----
\* Lines 36-54 with the key branch as a plain else: no ValueError.
Credential_noMissing == IF Truthy(password) THEN "password" ELSE "key"

\* Lines 36-54 without the key branch of lines 44-52.
Credential_passwordOnly == IF Truthy(password) THEN "password" ELSE "missing"

\* Lines 36-54: which credential connect() uses.
Credential == IF Truthy(password) THEN "password"
              ELSE IF Truthy(key_path) THEN "key"
              ELSE "missing"

Connected == [error |-> "ok", transport |-> "active"]

\* Outcomes of paramiko's SSHClient.connect (lines 37, 46): success leaves an
\* active transport; a failure leaves no transport (socket error, timeout),
\* a dead one (negotiation failed), or - when the server only rejected the
\* credentials - the transport still running, unauthenticated.
LibraryConnect ==
    {Connected}
    \cup [error : {"Auth", "SSH", "Other"}, transport : {"none", "inactive"}]
    \cup {[error |-> "Auth", transport |-> "unauth"]}

\* Outcomes of RSAKey.from_private_key_file (line 45) failing: no transport
\* has been opened yet.
KeyLoadFailures == [error : {"Auth", "SSH", "Other"}, transport : {"none"}]

\* Line 54: ValueError.
ConfigError == [error |-> "Config", transport |-> "none"]

ConnectOutcomes ==
    CASE Credential = "password" -> LibraryConnect
      [] Credential = "key" -> KeyLoadFailures \cup LibraryConnect
      [] OTHER -> {ConfigError}

\* Line 32: a fresh paramiko.SSHClient(), whose transport ends as the
\* outcome says.
NewSession(o) == [transport |-> o.transport, closed |-> FALSE]

\* connect(), lines 27-66, ending with outcome o: o.error = "ok" is a normal
\* return, anything else is the exception re-raised at lines 60, 63, 66.
connect(o) ==
    IF AlreadyConnected
    THEN /\ o = Connected
         /\ UNCHANGED handle
    ELSE /\ o \in ConnectOutcomes
         /\ Len(sessions) < MaxSessions
         /\ sessions' = Append(sessions, NewSession(o))
         /\ client' = Len(sessions) + 1

AnyOutcome == LibraryConnect \cup KeyLoadFailures \cup {ConfigError}

\* -------------------------------------------------------------- close ----
\* Line 108: paramiko's close() deactivates the transport before anything in
\* it can fail; a clean close also forgets the transport.
Closed(ok) == [transport |-> IF ok THEN "none" ELSE "inactive", closed |-> TRUE]

\* Line 113: the finally clause.
Cleared == None

\* close() with line 113 at the end of the try body instead of in a finally
\* clause.
close_noFinally(ok) ==
    IF client # None
    THEN /\ sessions' = [sessions EXCEPT ![client] = Closed(ok)]
         /\ client' = IF ok THEN Cleared ELSE client
    ELSE /\ ok
         /\ UNCHANGED handle

\* close() that only forgets the session, without line 108.
close_noLibraryClose(ok) ==
    /\ ok
    /\ client' = Cleared
    /\ UNCHANGED sessions

\* close(), lines 106-113; ok = FALSE is the underlying close raising, which
\* lines 110-111 swallow.
close(ok) ==
    IF client # None
    THEN /\ sessions' = [sessions EXCEPT ![client] = Closed(ok)]
         /\ client' = Cleared
    ELSE /\ ok
         /\ UNCHANGED handle

\* ------------------------------------------------- the caller's view ----
Returns(name, v) ==
    /\ op' = name
    /\ outcome' = "returned"
    /\ error' = "none"
    /\ ret' = v

Raises(name, e) ==
    /\ op' = name
    /\ outcome' = "raised"
    /\ error' = e
    /\ ret' = NoValue

Ends(name, o) == IF o.error = "ok" THEN Returns(name, NoValue)
                 ELSE Raises(name, o.error)

\* No frame of execute_command is live.
Idle ==
    /\ pc' = "idle"
    /\ depth' = 0
    /\ command' = ""
    /\ timeout' = 0

\* A new call forgets the record of the previous execute_command.
Forget ==
    /\ call' = NoArgs
    /\ attempts' = 0
    /\ lastExec' = NoExec

Init ==
    /\ host = "h"
    /\ user = "u"
    /\ password \in Passwords
    /\ key_path \in KeyPaths
    /\ port = DefaultPort
    /\ client = None
    /\ sessions = << >>
    /\ inWith = FALSE
    /\ op = "__init__"
    /\ outcome = "returned"
    /\ error = "none"
    /\ ret = NoValue
    /\ pc = "idle"
    /\ depth = 0
    /\ command = ""
    /\ timeout = 0
    /\ call = NoArgs
    /\ attempts = 0
    /\ lastExec = NoExec

\* ----------------------------------------------------- caller's calls ----
\* handle.connect()
CallConnect ==
    /\ pc = "idle"
    /\ \E o \in AnyOutcome : connect(o) /\ Ends("connect", o)
    /\ Idle /\ Forget
    /\ UNCHANGED <<config, inWith>>

\* handle.close(): never raises (lines 110-113).
CallClose ==
    /\ pc = "idle"
    /\ \E ok \in BOOLEAN : close(ok)
    /\ Returns("close", NoValue)
    /\ Idle /\ Forget
    /\ UNCHANGED <<config, inWith>>

\* `with handle:` - __enter__ (lines 115-120).  When connect() raises, the
\* with statement ends there: the body and __exit__ are not run.
Enter ==
    /\ pc = "idle"
    /\ ~inWith
    /\ \E o \in AnyOutcome :
          /\ connect(o)
          /\ Ends("__enter__", o)
          /\ inWith' = (o.error = "ok")
    /\ Idle /\ Forget
    /\ UNCHANGED config

\* The end of the with body - __exit__ (lines 122-126), reached when the body
\* falls through (exc = FALSE) or raises (exc = TRUE).  __exit__ returns
\* None, so an exception of the body goes on to the caller.
Exit ==
    /\ pc = "idle"
    /\ inWith
    /\ \E ok \in BOOLEAN : close(ok)
    /\ \E exc \in BOOLEAN :
          IF exc THEN Raises("__exit__", "Body") ELSE Returns("__exit__", NoValue)
    /\ inWith' = FALSE
    /\ Idle /\ Forget
    /\ UNCHANGED config

\* The network or the remote host ends a transport.
Drop ==
    /\ \E s \in 1..Len(sessions) :
          /\ sessions[s].transport \in {"active", "unauth"}
          /\ sessions' = [sessions EXCEPT ![s].transport = "inactive"]
    /\ UNCHANGED <<config, client, inWith, result, frame>>

\* --------------------------------------------------- execute_command ----
\* What can happen at lines 79-83: the remote side replies, or exec_command /
\* recv_exit_status / read raises an SSHException, or raises something else.
ExecEvents ==
    [kind : {"reply"}, reply : Replies] \cup [kind : {"SSH", "Other"}, reply : {NoReply}]

\* Line 100 dropping the timeout: the retry runs with the default.
RetryArgs_defaultTimeout(c, t) == [command |-> c, timeout |-> DefaultTimeout]

\* Line 79: the remote side runs a command only on a session whose transport
\* is active and authenticated; on any other session exec_command raises.
CanRun(c) == c # None /\ sessions[c].transport = "active"

\* Lines 85-90 raising for a non-zero exit status instead of returning.
OnExit_raise(status) == IF status = 0 THEN "return" ELSE "raise"

\* Lines 85-90: what the call does with the exit status - both branches
\* return, the second after a warning.
OnExit(status) == IF status = 0 THEN "return" ELSE "return"

\* Line 100: the arguments the retry passes to the recursive call.
RetryArgs(c, t) == [command |-> c, timeout |-> t]

\* Line 100: `return self.execute_command(...)` hands the inner value on.
RetryReturn(v) == v

\* The value that reaches the caller from a return in frame d.
RECURSIVE Unwind(_, _)
Unwind(d, v) == IF d <= 1 THEN v ELSE Unwind(d - 1, RetryReturn(v))

\* Lines 92-95 without the SSHException clause: everything is retried.
Recoverable_all(e) == TRUE

\* Lines 92-95 without the recovery clause: nothing is retried.
Recoverable_none(e) == FALSE

\* Line 95: the classes the recovery clause catches; SSHException is caught
\* before it, at line 92.
Recoverable(e) == ~IsSSHException(e)

\* The call stays in progress at position p.
Goto(p) ==
    /\ pc' = p
    /\ UNCHANGED <<depth, command, timeout, result>>

\* The call ends by raising e: every frame above is inside its except clause
\* (line 100), so nothing catches it.
Fail(e) ==
    /\ Raises("execute_command", e)
    /\ Idle

\* handle.execute_command(c, t): the caller's call, lines 68-74.
CallExecute ==
    /\ pc = "idle"
    /\ \E a \in Calls :
          /\ command' = a.command
          /\ timeout' = a.timeout
          /\ call' = a
    /\ pc' = "check"
    /\ depth' = 1
    /\ attempts' = 0
    /\ lastExec' = NoExec
    /\ op' = "execute_command"
    /\ outcome' = "pending"
    /\ error' = "none"
    /\ ret' = NoValue
    /\ UNCHANGED <<config, handle, inWith>>

\* The implicit connect moved into the try block of line 78.
ConnectBeforeTry_inside == FALSE

\* Lines 76-78: the implicit connect comes before the try statement, so no
\* except clause of execute_command sees its exception.
ConnectBeforeTry == TRUE

\* Lines 75-76: the implicit connect.
ExecCheck ==
    /\ pc = "check"
    /\ IF NeedsConnect
       THEN \E o \in AnyOutcome :
               /\ connect(o)
               /\ IF o.error = "ok" THEN Goto("exec")
                  ELSE IF ConnectBeforeTry \/ ~Recoverable(o.error) THEN Fail(o.error)
                  ELSE Goto("rec_close")
       ELSE Goto("exec") /\ UNCHANGED handle
    /\ UNCHANGED <<config, inWith, call, attempts, lastExec>>

\* Lines 78-96: one attempt to run the command.
ExecTry ==
    /\ pc = "exec"
    /\ attempts' = attempts + 1
    /\ \E ev \in ExecEvents :
          /\ lastExec' = [command |-> command, timeout |-> timeout, session |-> client,
                          event |-> ev.kind, reply |-> ev.reply]
          /\ IF ev.kind = "reply"
             THEN /\ CanRun(client)
                  /\ IF Valid(ev.reply.out) /\ Valid(ev.reply.err)
                        /\ OnExit(ev.reply.status) = "return"
                     THEN /\ Returns("execute_command", Unwind(depth, Triple(ev.reply)))
                          /\ Idle
                     ELSE Goto("rec_close")     \* an exception in the try
             ELSE /\ client = None => ev.kind = "Other"     \* AttributeError
                  /\ IF Recoverable(ev.kind) THEN Goto("rec_close") ELSE Fail(ev.kind)
    /\ UNCHANGED <<config, handle, inWith, call>>

\* Line 98.
RecClose ==
    /\ pc = "rec_close"
    /\ \E ok \in BOOLEAN : close(ok)
    /\ Goto("rec_connect")
    /\ UNCHANGED <<config, inWith, call, attempts, lastExec>>

\* Line 99: an exception of the reconnect leaves the except clause.
RecConnect ==
    /\ pc = "rec_connect"
    /\ \E o \in AnyOutcome :
          /\ connect(o)
          /\ IF o.error = "ok" THEN Goto("rec_call") ELSE Fail(o.error)
    /\ UNCHANGED <<config, inWith, call, attempts, lastExec>>

\* Line 100: the recursive call, a new frame with the arguments of this one;
\* at the recursion limit the interpreter raises RecursionError instead.
RecCall ==
    /\ pc = "rec_call"
    /\ IF depth < MaxRecursion
       THEN /\ pc' = "check"
            /\ depth' = depth + 1
            /\ command' = RetryArgs(command, timeout).command
            /\ timeout' = RetryArgs(command, timeout).timeout
            /\ UNCHANGED result
       ELSE Fail("Recursion")
    /\ UNCHANGED <<config, handle, inWith, call, attempts, lastExec>>

Next ==
    \/ CallConnect
    \/ CallClose
    \/ Enter
    \/ Exit
    \/ Drop
    \/ CallExecute
    \/ ExecCheck
    \/ ExecTry
    \/ RecClose
    \/ RecConnect
    \/ RecCall

Spec == Init /\ [][Next]_vars

TypeOK ==
    /\ password \in Passwords /\ key_path \in KeyPaths
    /\ client \in 0..MaxSessions
    /\ client <= Len(sessions)
    /\ inWith \in BOOLEAN
    /\ outcome \in {"pending", "returned", "raised"}
    /\ error \in ErrorKinds \cup {"none"}
    /\ pc \in {"idle", "check", "exec", "rec_close", "rec_connect", "rec_call"}
    /\ depth \in 0..MaxRecursion
    /\ (pc = "idle") = (depth = 0)
    /\ (pc = "idle") = (outcome # "pending")

\* ================================================================ claims ==
\* A password or key path counts as set when it is neither None nor empty.
Given(v) == v \notin {"None", ""}

\* A step in which connect() got past line 29 and built a session object.
ConnectStep == Len(sessions') = Len(sessions) + 1

ActiveSessions ==
    {s \in 1..Len(sessions) : sessions[s].transport \in {"active", "unauth"}}

\* C1 (as claimed): one call of execute_command makes at most two exec
\* attempts.  The code recurses at line 100 without counting, so a remote side
\* whose exec fails with a non-protocol exception every time is tried again
\* and again, until the interpreter's recursion limit ends the call.
C1_AtMostTwoAttempts == attempts <= 2

\* C2 (as claimed): on a disconnected handle connect() fails with a
\* configuration error, and opens no transport, when password and key_path
\* are both set or both not set.
C2_ConfigErrorOnBothOrNeither ==
    [][(ConnectStep /\ Given(password) = Given(key_path))
          => /\ outcome' = "raised"
             /\ error' = "Config"
             /\ sessions'[client'].transport = "none"]_vars

\* C2 (amended): on a disconnected handle connect() fails with a
\* configuration error, and opens no transport, when neither password nor
\* key_path is set; with at least one of them set it never fails with a
\* configuration error (with both set it uses the password); a transport is
\* opened only when at least one of them is set.
C2_ConfigErrorIffNeither ==
    [][ConnectStep =>
          /\ (~Given(password) /\ ~Given(key_path))
                => /\ outcome' = "raised"
                   /\ error' = "Config"
                   /\ sessions'[client'].transport = "none"
          /\ (Given(password) \/ Given(key_path)) => error' # "Config"
          /\ sessions'[client'].transport # "none"
                => (Given(password) \/ Given(key_path))]_vars

\* C2 witness: connect() has connected a handle built with both credentials.
C2_Witness ==
    /\ Given(password) /\ Given(key_path)
    /\ op = "connect" /\ outcome = "returned" /\ is_connected

\* C3 (as claimed): after connect() has raised, self.client is None.  The
\* code stores the new session object at line 32, before anything can fail,
\* and no except clause resets it.
C3_FailedConnectLeavesHandleUnset ==
    (op = "connect" /\ outcome = "raised") => client = None

\* C4 (as claimed): once a scoped use has ended - after the body, or because
\* acquisition raised - the handle is cleared and disconnected.  When
\* __enter__ raises, __exit__ is not run, and connect() has left the failed
\* session object in self.client (C3).
C4_ScopeEndClearsHandle ==
    (op = "__exit__" \/ (op = "__enter__" /\ outcome = "raised"))
        => (client = None /\ ~is_connected)

\* C5 (as claimed): whatever execute_command raises is an SSHException.
C5_OnlyProtocolErrorsEscape ==
    (op = "execute_command" /\ outcome = "raised") => error \in {"SSH", "Auth"}

\* C5 (amended): an error that leaves execute_command is an SSHException
\* raised by the exec step, or the error - of any class - that connect()
\* raised in the implicit connect (line 76) or in the reconnect (line 99), or
\* the interpreter's RecursionError when the retries reach the recursion
\* limit; an exception of the exec step that is no SSHException never leaves
\* the call.
C5_EscapingErrors ==
    [][(op' = "execute_command" /\ outcome = "pending" /\ outcome' = "raised")
          => \/ /\ pc = "exec"
                /\ lastExec'.event = "SSH"
                /\ error' = "SSH"
             \/ /\ pc \in {"check", "rec_connect"}
                /\ ConnectStep
                /\ error' \in {"Auth", "SSH", "Other", "Config"}
                /\ error' = "Config" <=> (~Given(password) /\ ~Given(key_path))
             \/ /\ pc = "rec_call"
                /\ depth = MaxRecursion
                /\ error' = "Recursion"]_vars

\* C5 witness: the configuration error of the implicit connect has left
\* execute_command.
C5_Witness ==
    op = "execute_command" /\ outcome = "raised" /\ error = "Config" /\ attempts = 0

\* C6: at most one session the handle has created is active, that session is
\* the one the handle holds, and a session object is created only while the
\* handle has no active session.
C6_AtMostOneActiveSession ==
    /\ [](/\ Cardinality(ActiveSessions) <= 1
          /\ \A s \in ActiveSessions : s = client)
    /\ [][ConnectStep => ~is_connected]_vars

\* C6 witness: the handle holds an active session after having dropped two
\* earlier ones.
C6_Witness == Len(sessions) >= 3 /\ is_connected /\ client = Len(sessions)

\* C7: connect() on a handle with an active session returns normally and
\* changes neither the handle, nor the sessions, nor the configuration.
C7_ConnectWhenActiveIsNoOp ==
    [][(CallConnect /\ is_connected)
          => /\ client' = client
             /\ sessions' = sessions
             /\ config' = config
             /\ outcome' = "returned"
             /\ error' = "none"]_vars

\* C7 witness: connect() was called inside a with body whose __enter__ built
\* the only session there is, and that session is still active.
C7_Witness ==
    /\ inWith /\ op = "connect" /\ outcome = "returned"
    /\ Len(sessions) = 1 /\ is_connected

\* C8: close() returns normally and leaves the handle cleared and
\* disconnected, whatever the state before and whether or not the underlying
\* close raised; a close() on a cleared handle changes nothing.
C8_CloseClearsAndNeverRaises ==
    /\ [](op = "close" => (outcome = "returned" /\ client = None /\ ~is_connected))
    /\ [][CallClose
            => /\ outcome' = "returned"
               /\ client' = None
               /\ client = None => sessions' = sessions
               /\ client # None => sessions'[client].closed]_vars

\* C8 witness: close() has returned although the underlying close of the
\* session raised.
C8_Witness ==
    /\ op = "close" /\ outcome = "returned" /\ client = None
    /\ \E s \in 1..Len(sessions) :
          sessions[s].closed /\ sessions[s].transport = "inactive"

\* C9: an SSHException of the exec step ends the call at once with that
\* error: no close, no reconnect, no further attempt, the handle and every
\* session as before.
C9_ProtocolErrorNotRetried ==
    [][(pc = "exec" /\ pc' # "exec" /\ lastExec'.event = "SSH")
          => /\ pc' = "idle"
             /\ outcome' = "raised"
             /\ error' = "SSH"
             /\ client' = client
             /\ sessions' = sessions
             /\ attempts' = attempts + 1]_vars

\* C9 witness: the first attempt raised an SSHException on an active session,
\* which the handle still holds.
C9_Witness ==
    /\ op = "execute_command" /\ outcome = "raised" /\ error = "SSH"
    /\ attempts = 1 /\ lastExec.event = "SSH"
    /\ lastExec.session = client /\ is_connected

\* The triple the caller must get for each reply of the model's remote side.
Expected(r) == IF r.status = 7 THEN << << >>, <<"e">>, 7 >>
               ELSE << <<"o", "k">>, << >>, 0 >>

\* C10: after an exec step that raised something other than an SSHException
\* the call closes the session and clears the handle, then connects a new
\* session, then calls itself with the caller's command and timeout; every
\* attempt runs the caller's command with the caller's timeout on the session
\* the handle holds, a retry never on the session that failed; and the value
\* the caller gets is the triple of the last attempt's reply.
C10_RecoveryOrder ==
    [][/\ (pc = "exec" /\ pc' \notin {"exec", "idle"})
            => (pc' = "rec_close" /\ handle' = handle)
       /\ (pc = "rec_close" /\ pc' # pc)
            => /\ pc' = "rec_connect"
               /\ client' = None
               /\ client # None => sessions'[client].closed
       /\ (pc = "rec_connect" /\ pc' # pc)
            => /\ client' = Len(sessions) + 1
               /\ Len(sessions') = Len(sessions) + 1
               /\ pc' = "rec_call" => sessions'[client'].transport = "active"
               /\ pc' # "rec_call" => (pc' = "idle" /\ outcome' = "raised")
       /\ (pc = "rec_call" /\ pc' # pc /\ depth < MaxRecursion)
            => /\ pc' = "check"
               /\ command' = call.command
               /\ timeout' = call.timeout
       /\ (pc = "exec" /\ pc' # pc)
            => /\ lastExec'.command = call.command
               /\ lastExec'.timeout = call.timeout
               /\ lastExec'.session = client
               /\ attempts >= 1 => lastExec'.session > lastExec.session
       /\ (pc = "exec" /\ outcome' = "returned")
            => /\ lastExec'.event = "reply"
               /\ ret' = Expected(lastExec'.reply)]_vars

\* C10 witness: the caller got the triple of a retry that ran on a new
\* session, with the caller's own timeout.
C10_Witness ==
    /\ op = "execute_command" /\ outcome = "returned"
    /\ attempts = 2 /\ lastExec.session = client /\ client >= 2
    /\ call.timeout # DefaultTimeout
    /\ ret = << << >>, <<"e">>, 7 >>

\* C11: execute_command reaches its exec step only with an active session in
\* the handle.  On a handle without one (None, or a session whose transport
\* is not active) it first runs connect(), which builds a new session, and
\* goes on to the exec step only when that connect returned; on a handle with
\* an active session it goes on with that session and builds no other.  An
\* attempt runs on the session the handle holds, and a call whose attempt
\* gets a reply returns a triple of two texts and the exit status.
C11_ExecOnlyWithActiveSession ==
    [][/\ (pc = "check" /\ pc' # pc /\ ~is_connected)
            => /\ ConnectStep
               /\ client' = Len(sessions')
               /\ pc' = "exec" => sessions'[client'].transport = "active"
               /\ pc' # "exec" => (pc' = "idle" /\ outcome' = "raised"
                                    /\ attempts' = attempts)
       /\ (pc = "check" /\ pc' # pc /\ is_connected)
            => (pc' = "exec" /\ handle' = handle)
       /\ (pc # "exec" /\ pc' = "exec") => (pc = "check" /\ is_connected')
       /\ attempts' # attempts
            => \/ (pc = "exec" /\ attempts' = attempts + 1 /\ lastExec'.session = client)
               \/ (pc = "idle" /\ attempts' = 0)
       /\ (pc = "exec" /\ outcome' = "returned")
            => /\ is_connected
               /\ Len(ret') = 3
               /\ ret'[3] = lastExec'.reply.status]_vars

\* C11 witness: a call returned its triple from a first attempt on the
\* handle's second session, the first having dropped without being closed.
C11_Witness ==
    /\ op = "execute_command" /\ outcome = "returned" /\ attempts = 1
    /\ Len(sessions) = 2 /\ client = 2 /\ lastExec.session = 2
    /\ sessions[1] = [transport |-> "inactive", closed |-> FALSE]
    /\ Len(ret) = 3

\* C12: a reply with a non-zero exit status makes the call return the triple
\* with that status - no exception, no close, no reconnect, no retry - and
\* leaves the handle and the sessions as they were, as a zero status does.
C12_NonZeroExitReturns ==
    [][(pc = "exec" /\ pc' # pc /\ lastExec'.event = "reply"
           /\ Valid(lastExec'.reply.out) /\ Valid(lastExec'.reply.err))
          => /\ pc' = "idle"
             /\ outcome' = "returned"
             /\ error' = "none"
             /\ ret' = Expected(lastExec'.reply)
             /\ ret'[3] = lastExec'.reply.status
             /\ handle' = handle
             /\ is_connected'
             /\ attempts' = attempts + 1]_vars

\* C12 witness: a first attempt returned status 7 and the handle is still
\* connected through the same session.
C12_Witness ==
    /\ op = "execute_command" /\ outcome = "returned"
    /\ ret = << << >>, <<"e">>, 7 >>
    /\ attempts = 1 /\ lastExec.session = client /\ is_connected

\* C13: construction opens no session; a connect() that returns leaves
\* is_connected() true; and with exactly one of password and key_path set, a
\* disconnected handle - new, closed, or closed and connected again any number
\* of times - can always be connected: the connect() that builds an active
\* session and returns is possible whenever the remote side accepts.
C13_ConnectThenConnected ==
    /\ [](op = "__init__" => (client = None /\ sessions = << >>))
    /\ [][(CallConnect /\ outcome' = "returned") => is_connected']_vars
    /\ []((/\ Given(password) # Given(key_path)
           /\ pc = "idle" /\ ~is_connected /\ Len(sessions) < MaxSessions)
            => ENABLED (/\ CallConnect
                        /\ outcome' = "returned"
                        /\ client' = Len(sessions) + 1
                        /\ sessions'[client'].transport = "active"))

\* C13 witness: with only a key path set, connect() has connected the handle
\* again after two sessions were closed.
C13_Witness ==
    /\ ~Given(password) /\ Given(key_path)
    /\ op = "connect" /\ outcome = "returned" /\ is_connected
    /\ client = 3 /\ sessions[1].closed /\ sessions[2].closed

\* C14 (as claimed): connect() raises what went wrong, and after a connect()
\* that raised is_connected() is false.  When the server rejects the
\* credentials paramiko raises AuthenticationException and leaves the
\* transport running; connect() has stored that session at line 32 (C3) and
\* does not close it, so is_connected() is true after the failed call.
C14_FailedConnectNotConnected ==
    (op = "connect" /\ outcome = "raised")
        => (error \in {"Auth", "SSH", "Other", "Config"} /\ ~is_connected)

\* C15: inside execute_command a connect() that fails - the implicit one of
\* line 76 or the reconnect of line 99 - ends the call at once with the
\* error of that connect: no exec attempt and no recursion follow it.  So on
\* a handle none of whose connects has ever opened a transport, a call that
\* has ended has raised a connect error without a single exec attempt.
C15_ConnectFailureEndsCall ==
    /\ [][(pc \in {"check", "rec_connect"} /\ ConnectStep
              /\ sessions'[client'].transport # "active")
            => /\ pc' = "idle"
               /\ depth' = 0
               /\ outcome' = "raised"
               /\ error' \in {"Auth", "SSH", "Other", "Config"}
               /\ error' = "Auth" \/ sessions'[client'].transport # "unauth"
               /\ attempts' = attempts
               /\ lastExec' = lastExec]_vars
    /\ []((/\ op = "execute_command" /\ outcome # "pending"
           /\ \A s \in 1..Len(sessions) :
                 sessions[s] = [transport |-> "none", closed |-> FALSE])
            => /\ outcome = "raised"
               /\ error \in {"Auth", "SSH", "Other", "Config"}
               /\ attempts = 0
               /\ Len(sessions) >= 1)

\* C15 witness: the reconnect of the recovery path failed without reaching
\* the host, after one exec attempt, and the call raised its error.
C15_Witness ==
    /\ op = "execute_command" /\ outcome = "raised" /\ error = "Other"
    /\ attempts = 1 /\ client = Len(sessions)
    /\ sessions[client] = [transport |-> "none", closed |-> FALSE]
    /\ lastExec.session = client - 1

\* C16 (as claimed): every session object the handle no longer holds has had
\* its close operation invoked.  connect() replaces a session whose transport
\* is not active - dropped, or left by a failed connect - at line 32 without
\* closing it.
C16_EveryDroppedSessionClosed ==
    \A s \in 1..Len(sessions) : s # client => sessions[s].closed

\* C16 (amended): the handle lets go of a session - clears or overwrites
\* self.client - only after invoking its close operation, or when the
\* session's transport is not active; a session with an active transport is
\* never let go of unclosed.
C16_NoActiveSessionLeaked ==
    /\ [][(client # None /\ client' # client)
            => (sessions'[client].closed \/ ~is_connected)]_vars
    /\ [](\A s \in 1..Len(sessions) :
             (s # client /\ ~sessions[s].closed)
                => sessions[s].transport \in {"none", "inactive"})

\* C16 witness: the handle holds its third session, having closed the first
\* and replaced the second, whose transport had dropped, without closing it.
C16_Witness ==
    /\ Len(sessions) = 3 /\ client = 3 /\ is_connected
    /\ sessions[1].closed
    /\ sessions[2] = [transport |-> "inactive", closed |-> FALSE]

====
